---------------------------- MODULE Spec2Model ----------------------------
(***************************************************************************)
(* Model of the pdfComplete web client: the field deduplicator             *)
(* (webapp/src/lib/dedupeFields.ts) and the form store with its            *)
(* signature-keyed cache (webapp/src/stores/useFormStore.ts).              *)
(*                                                                         *)
(* The specifications of the module:                                       *)
(*   Spec        the store: setSelectedPdfs / fetchCombinedFields, the     *)
(*               responses of the external service, and reset;             *)
(*   FairSpec    Spec with every request eventually settled;               *)
(*   SpecFull    every operation of the store;                             *)
(*   SpecForm    the store while the user fills in the form;               *)
(*   SpecLibrary the selection handlers of LibraryList on the store;       *)
(*   SpecDedupe  dedupeFields applied to bounded inputs;                   *)
(*   SpecSig     selectionSignature applied to pairs of bounded lists;     *)
(*   SpecApi     request() of api.ts on the outcomes of fetch.             *)
(***************************************************************************)
EXTENDS Integers, Sequences, FiniteSets, TLC

VARIABLES
    \* ---- store slots (useFormStore.ts, FormStoreState) ----
    allPdfs, selectedPdfs, combinedFields, fieldValues, schemaVersion,
    isLoadingPdfs, isLoadingFields, isFilling, fieldsCache,
    \* ---- the external service: requests awaiting their response ----
    inflight, listInflight, schemaInflight,
    \* ---- observation of the run (not read by the store) ----
    calls,      \* one record per setSelectedPdfs call, in call order
    svcCount,   \* signature -> getCombinedFields invocations since reset
    nResets,    \* reset calls so far
    last,       \* the step that produced the current state
    \* ---- SpecDedupe ----
    fields, dedupeOut, dedupeAgain, outRefs,
    \* ---- SpecSig ----
    pdfsA, pdfsB, sigA, sigB,
    \* ---- SpecApi: request() of api.ts ----
    apiArgs, fetchResult, apiOutcome,
    \* ---- SpecLibrary: the search box of LibraryList, and the handler that
    \* ran last with its argument (not read by the component) ----
    query, handler,
    \* ---- position of the pure-function specifications ----
    pc

storeVars == <<allPdfs, selectedPdfs, combinedFields, fieldValues, schemaVersion,
               isLoadingPdfs, isLoadingFields, isFilling, fieldsCache>>
envVars   == <<inflight, listInflight, schemaInflight>>
obsVars   == <<calls, svcCount, nResets, last>>
dedupeVars == <<fields, dedupeOut, dedupeAgain, outRefs>>
sigVars   == <<pdfsA, pdfsB, sigA, sigB>>
apiVars == <<apiArgs, fetchResult, apiOutcome>>
libVars == <<query, handler>>
vars == <<storeVars, envVars, obsVars, dedupeVars, sigVars, apiVars, libVars, pc>>

-----------------------------------------------------------------------------
(* Bounds of the model.                                                    *)

MaxFields == 3      \* longest input of dedupeFields
MaxSigLen == 3      \* longest list given to selectionSignature in SpecSig
MaxCalls  == 2      \* setSelectedPdfs calls in one run
MaxResets == 1      \* reset calls in one run
MaxFullCalls == 1   \* setSelectedPdfs calls in one run of SpecFull
MaxAuxInflight == 1 \* listPdfs, and getSchema, requests in flight at once
MaxLibCalls == 3    \* handler invocations in one run of SpecLibrary

-----------------------------------------------------------------------------
(* Generic helpers.                                                        *)

Range(s) == { s[i] : i \in 1..Len(s) }

SeqsUpTo(S, n) == UNION { [1..k -> S] : k \in 0..n }

Has(f, k) == k \in DOMAIN f

\* obj with property k set to v (an object spread followed by one property).
With(f, k, v) == [x \in (DOMAIN f) \cup {k} |-> IF x = k THEN v ELSE f[x]]

\* obj with property k set to undefined; an undefined property is modelled
\* as an absent one.
Without(f, k) == [x \in (DOMAIN f) \ {k} |-> f[x]]

-----------------------------------------------------------------------------
(* dedupeFields.ts                                                         *)

\* A field name is a sequence of characters.
Whitespace == {" "}

ToLowerChar(c) == CASE c = "A" -> "a"
                    [] c = "B" -> "b"
                    [] OTHER   -> c

RECURSIVE TrimStart(_)
TrimStart(s) == IF s # <<>> /\ Head(s) \in Whitespace THEN TrimStart(Tail(s)) ELSE s

RECURSIVE TrimEnd(_)
TrimEnd(s) == IF s # <<>> /\ s[Len(s)] \in Whitespace
              THEN TrimEnd(SubSeq(s, 1, Len(s) - 1)) ELSE s

Trim(s) == TrimEnd(TrimStart(s))

ToLowerCase(s) == [i \in 1..Len(s) |-> ToLowerChar(s[i])]

\* normalizeName without the lowercasing.
normalizeName_NoLower(name) == Trim(name)

\* normalizeName without the trim.
normalizeName_NoTrim(name) == ToLowerCase(name)

normalizeName(name) == ToLowerCase(Trim(name))

\* [...new Set(xs)]: the distinct elements of xs in first-seen order.
RECURSIVE UniqueInto(_, _)
UniqueInto(acc, xs) ==
    IF xs = <<>> THEN acc
    ELSE UniqueInto(IF Head(xs) \in Range(acc) THEN acc ELSE Append(acc, Head(xs)),
                    Tail(xs))

Unique(xs) == UniqueInto(<<>>, xs)

\* An optional value is <<>> (undefined) or <<v>>.
OccOf(f)  == IF Has(f, "occurrences") THEN <<f.occurrences>> ELSE <<>>
OptsOrEmpty(f) == IF Has(f, "options") THEN f.options ELSE <<>>

\* On an object literal (out in mergeOccurrences, fieldsCache in the store)
\* a property read finds, besides the own entries, the members inherited
\* from Object.prototype.
ObjectPrototypeKeys ==
    {"constructor", "toString", "valueOf", "hasOwnProperty", "__proto__"}

\* The value of an expression that is not a number: an inherited member of
\* Object.prototype (a function or an object) to which + appends the count
\* as text.  Adding to it again appends again, so it stays not a number.
NotANumber == -1

\* out[pdf] on the object literal out: the own property, else the member
\* inherited from Object.prototype, else undefined (<<>>).
CountGet(out, pdf) ==
    IF pdf \in DOMAIN out THEN <<out[pdf]>>
    ELSE IF pdf \in ObjectPrototypeKeys THEN <<NotANumber>>
    ELSE <<>>

\* (x ?? 0) + count
PlusCount(x, count) ==
    LET lhs == IF x = <<>> THEN 0 ELSE x[1]
    IN  IF lhs = NotANumber \/ count = NotANumber THEN NotANumber ELSE lhs + count

\* out[pdf] = (out[pdf] ?? 0) + (count ?? 0) for every entry of m.  An
\* assignment to out["__proto__"] of a value that is not an object creates
\* no property.
AddCounts(out, m) ==
    [p \in (DOMAIN out) \cup ((DOMAIN m) \ {"__proto__"}) |->
        IF p \in DOMAIN m THEN PlusCount(CountGet(out, p), m[p]) ELSE out[p]]

EmptyMap == [p \in {} |-> 0]

mergeOccurrences(a, b) ==
    IF a = <<>> /\ b = <<>> THEN <<>>
    ELSE LET o1 == IF a # <<>> THEN AddCounts(EmptyMap, a[1]) ELSE EmptyMap
             o2 == IF b # <<>> THEN AddCounts(o1, b[1]) ELSE o1
         IN  <<o2>>

\* The clone of the first occurrence with options copied as they are.
CloneFirst_KeepsDuplicates(f) == f

\* First occurrence of a key: the shallow clone stored in the map.
CloneFirst(f) ==
    IF Has(f, "options") THEN With(f, "options", Unique(f.options)) ELSE f

\* The merge with the later descriptor's properties spread over existing.
MergeInto_LaterWins(existing, f) ==
    LET occ == mergeOccurrences(OccOf(existing), OccOf(f))
        m0  == [existing EXCEPT !.name = f.name, !.kind = f.kind]
        m1  == IF occ = <<>> THEN Without(m0, "occurrences")
                             ELSE With(m0, "occurrences", occ[1])
        m2  == IF Has(existing, "options") \/ Has(f, "options")
               THEN With(m1, "options", Unique(OptsOrEmpty(existing) \o OptsOrEmpty(f)))
               ELSE m1
    IN  IF Has(f, "required") /\ f.required = TRUE
        THEN With(m2, "required", TRUE) ELSE m2

\* The merge with required taken from the later descriptor when it has one.
MergeInto_LastRequiredWins(existing, f) ==
    LET occ == mergeOccurrences(OccOf(existing), OccOf(f))
        m1  == IF occ = <<>> THEN Without(existing, "occurrences")
                             ELSE With(existing, "occurrences", occ[1])
        m2  == IF Has(existing, "options") \/ Has(f, "options")
               THEN With(m1, "options", Unique(OptsOrEmpty(existing) \o OptsOrEmpty(f)))
               ELSE m1
    IN  IF Has(f, "required") THEN With(m2, "required", f.required) ELSE m2

\* A later occurrence of a key: the merged descriptor.
MergeInto(existing, f) ==
    LET occ == mergeOccurrences(OccOf(existing), OccOf(f))
        m1  == IF occ = <<>> THEN Without(existing, "occurrences")
                             ELSE With(existing, "occurrences", occ[1])
        m2  == IF Has(existing, "options") \/ Has(f, "options")
               THEN With(m1, "options", Unique(OptsOrEmpty(existing) \o OptsOrEmpty(f)))
               ELSE m1
        m3  == IF Has(f, "required") /\ f.required = TRUE
               THEN With(m2, "required", TRUE) ELSE m2
    IN  m3

\* What the model records beside an entry of the Map: the identity of the
\* entry itself, of its options array and of its occurrences object, the
\* objects assigned to while it was built, and the indices of the input
\* descriptors that went into it.  An object of the input is named by the
\* index of its descriptor; Fresh is an object the call allocated; NoObject
\* is undefined.
Fresh == 0
NoObject == -1

\* The first occurrence stored as { ...f }: options and occurrences are the
\* input's own array and object.
CloneFirstRefs_Shared(f, i) ==
    [self        |-> Fresh,
     options     |-> IF Has(f, "options") THEN i ELSE NoObject,
     occurrences |-> IF Has(f, "occurrences") THEN i ELSE NoObject,
     written     |-> {},
     from        |-> {i}]

\* First occurrence: the object literal is new, options is a new array
\* ([...new Set(f.options)]) and occurrences a new object ({ ...f.occurrences }).
\* Nothing that existed before is assigned to.
CloneFirstRefs(f, i) ==
    [self        |-> Fresh,
     options     |-> IF Has(f, "options") THEN Fresh ELSE NoObject,
     occurrences |-> IF Has(f, "occurrences") THEN Fresh ELSE NoObject,
     written     |-> {},
     from        |-> {i}]

\* A later occurrence: merged is a new object literal; occurrences is the
\* object out that mergeOccurrences allocates and fills (or undefined);
\* options is Array.from(set) or the property spread from existing.
\* merged.options = ... and merged.required = true assign to merged.
MergeRefs(refs, existing, f, i) ==
    LET occ     == mergeOccurrences(OccOf(existing), OccOf(f))
        occRef  == IF occ = <<>> THEN NoObject ELSE Fresh
        hasOpts == Has(existing, "options") \/ Has(f, "options")
        self    == Fresh
    IN  [self        |-> self,
         options     |-> IF hasOpts THEN Fresh ELSE refs.options,
         occurrences |-> occRef,
         written     |-> refs.written
                           \cup (IF occ = <<>> THEN {} ELSE {occRef})
                           \cup (IF hasOpts THEN {self} ELSE {})
                           \cup (IF Has(f, "required") /\ f.required = TRUE
                                 THEN {self} ELSE {}),
         from        |-> refs.from \cup {i}]

\* The Map of dedupeFields is a sequence of [key, val, refs] in insertion
\* order.
KeyIndex(map, key) ==
    IF \E i \in 1..Len(map) : map[i].key = key
    THEN CHOOSE i \in 1..Len(map) : map[i].key = key
    ELSE 0

\* The iteration with map.delete(key) before map.set(key, merged): a merged
\* entry moves to the end.
DedupeStep_MovesToEnd(map, f, i) ==
    LET key == normalizeName(f.name)
        idx == KeyIndex(map, key)
    IN  IF idx = 0
        THEN Append(map, [key |-> key, val |-> CloneFirst(f),
                          refs |-> CloneFirstRefs(f, i)])
        ELSE Append(SubSeq(map, 1, idx - 1) \o SubSeq(map, idx + 1, Len(map)),
                    [key |-> key, val |-> MergeInto(map[idx].val, f),
                     refs |-> MergeRefs(map[idx].refs, map[idx].val, f, i)])

\* One iteration of the for loop; f is fields[i].  map.set on a key that is
\* present keeps the key's position.
DedupeStep(map, f, i) ==
    LET key == normalizeName(f.name)
        idx == KeyIndex(map, key)
    IN  IF idx = 0
        THEN Append(map, [key |-> key, val |-> CloneFirst(f),
                          refs |-> CloneFirstRefs(f, i)])
        ELSE [map EXCEPT ![idx] = [key |-> key, val |-> MergeInto(map[idx].val, f),
                                   refs |-> MergeRefs(map[idx].refs, map[idx].val, f, i)]]

RECURSIVE DedupeLoop(_, _, _)
DedupeLoop(map, fs, i) ==
    IF i > Len(fs) THEN map ELSE DedupeLoop(DedupeStep(map, fs[i], i), fs, i + 1)

\* The values of the map in reverse insertion order.
MapValues_Reversed(map) == [i \in 1..Len(map) |-> map[Len(map) + 1 - i].val]

\* Array.from(map.values())
MapValues(map) == [i \in 1..Len(map) |-> map[i].val]

MapRefs(map) == [i \in 1..Len(map) |-> map[i].refs]

dedupeFields(fs) == MapValues(DedupeLoop(<<>>, fs, 1))

\* The identities behind the entries dedupeFields(fs) returns.
dedupeFieldsRefs(fs) == MapRefs(DedupeLoop(<<>>, fs, 1))

-----------------------------------------------------------------------------
(* useFormStore.ts: selectionSignature                                     *)

\* Document identifiers.  IdNFC and IdNFD stand for the precomposed and the
\* decomposed spelling of one file name: different strings that
\* String.prototype.localeCompare compares as equal (canonical equivalence).
IdNFC == "e_nfc"
IdNFD == "e_nfd"
Ids == {"a", "b", IdNFC, IdNFD, "a||b", ""}

\* a.localeCompare(b) compares collation keys; CollationKey orders Ids as
\* the default collation does:
\*   "" < "a" < "a||b" < "b" < "constructor" < "e\u0301" = "\u00e9".
CollationKey(id) == CASE id = ""            -> 0
                      [] id = "a"           -> 1
                      [] id = "a||b"        -> 2
                      [] id = "b"           -> 3
                      [] id = "constructor" -> 4
                      [] id = IdNFC         -> 5
                      [] id = IdNFD         -> 5

localeCompare(a, b) == IF CollationKey(a) < CollationKey(b) THEN -1
                       ELSE IF CollationKey(a) > CollationKey(b) THEN 1 ELSE 0

\* Array.prototype.sort is stable: x goes behind every element that does
\* not compare greater than it.
RECURSIVE InsertSorted(_, _)
InsertSorted(sorted, x) ==
    IF sorted = <<>> THEN <<x>>
    ELSE IF localeCompare(Head(sorted), x) <= 0
         THEN <<Head(sorted)>> \o InsertSorted(Tail(sorted), x)
         ELSE <<x>> \o sorted

RECURSIVE SortInto(_, _)
SortInto(sorted, xs) ==
    IF xs = <<>> THEN sorted ELSE SortInto(InsertSorted(sorted, Head(xs)), Tail(xs))

Sort(xs) == SortInto(<<>>, xs)

RECURSIVE Join(_, _)
Join(xs, sep) ==
    IF xs = <<>> THEN ""
    ELSE IF Len(xs) = 1 THEN xs[1]
    ELSE xs[1] \o sep \o Join(Tail(xs), sep)

selectionSignature(pdfs) == Join(Sort(pdfs), "||")

-----------------------------------------------------------------------------
(* Inputs of the bounded checks.                                           *)

Names == { <<"A">>, <<" ", "a">>, <<"B">> }
Kinds == { "text", "number" }

\* The optional properties of a descriptor: none; required false or true
\* alone; options and occurrences; all three.
OptionalParts ==
    { EmptyMap,
      [required |-> FALSE],
      [required |-> TRUE],
      [options |-> <<"US", "CA">>, occurrences |-> ("a.pdf" :> 1 @@ "constructor" :> 1)],
      [required |-> TRUE, options |-> <<"CA", "MX", "CA">>,
       occurrences |-> ("a.pdf" :> 2 @@ "b.pdf" :> 1)] }

\* Descriptors of kind text with every choice of optional properties, and
\* descriptors of the other kinds without optional properties.
FieldPool ==
    { [name |-> n, kind |-> "text"] @@ p : n \in Names, p \in OptionalParts }
      \cup { [name |-> n, kind |-> k] : n \in Names, k \in Kinds \ {"text"} }

-----------------------------------------------------------------------------
(* The store's initial state (useFormStore.ts lines 34-42).                *)

NoCache == [s \in {} |-> <<>>]
Null == "null"
NoError == "none"

\* The record kept in `last`: the operation, the setSelectedPdfs call it
\* belongs to (0 if none), the error it raised to its caller, for an answer
\* of the service the raw field list, and for a reset the slots that held
\* something else than their initial value.
Step(op, call, error) ==
    [op |-> op, call |-> call, error |-> error, raw |-> <<>>, cleared |-> {}]

StoreInit ==
    /\ allPdfs = <<>>
    /\ selectedPdfs = <<>>
    /\ combinedFields = <<>>
    /\ fieldValues = [n \in {} |-> ""]
    /\ schemaVersion = Null
    /\ isLoadingPdfs = FALSE
    /\ isLoadingFields = FALSE
    /\ isFilling = FALSE
    /\ fieldsCache = NoCache

EnvInit == inflight = {} /\ listInflight = 0 /\ schemaInflight = 0

ObsInit ==
    /\ calls = <<>>
    /\ svcCount = EmptyMap
    /\ nResets = 0
    /\ last = Step("init", 0, NoError)

DedupeIdle == fields = <<>> /\ dedupeOut = <<>> /\ dedupeAgain = <<>> /\ outRefs = <<>>
SigIdle    == pdfsA = <<>> /\ pdfsB = <<>> /\ sigA = "" /\ sigB = ""
ApiIdle    == apiArgs = <<>> /\ fetchResult = <<>> /\ apiOutcome = <<>>
LibIdle    == query = "" /\ handler = [op |-> "none", name |-> ""]

-----------------------------------------------------------------------------
(* useFormStore.ts: the store.                                             *)

\* What such a read returns: a built-in function or object, not a field list.
InheritedValue == << [name |-> <<"#">>, kind |-> "Object.prototype member"] >>

\* get().fieldsCache[sig]; <<>> is undefined, <<v>> a value.
CacheGet(cache, sig) ==
    IF sig \in DOMAIN cache THEN <<cache[sig]>>
    ELSE IF sig \in ObjectPrototypeKeys THEN <<InheritedValue>>
    ELSE <<>>

\* fetchCombinedFields without the cache lookup.
FetchPath_NoCache(cache, pdfs) == IF Len(pdfs) = 0 THEN "empty" ELSE "miss"

\* fetchCombinedFields returning early, without a request, when a request
\* for the same signature is in flight.
FetchPath_SkipsWhenInflight(cache, pdfs) ==
    IF CacheGet(cache, selectionSignature(pdfs)) # <<>> THEN "hit"
    ELSE IF Len(pdfs) = 0 THEN "empty"
    ELSE IF \E r \in inflight : r.sig = selectionSignature(pdfs) THEN "empty"
    ELSE "miss"

\* The branch fetchCombinedFields takes (lines 66-78).
FetchPath(cache, pdfs) ==
    IF CacheGet(cache, selectionSignature(pdfs)) # <<>> THEN "hit"
    ELSE IF Len(pdfs) = 0 THEN "empty"
    ELSE "miss"

\* The cache update filing the result under the signature of the selection
\* at the time the answer arrives.
CachePut_UnderCurrentSelection(cache, sig, deduped) ==
    With(cache, selectionSignature(selectedPdfs), deduped)

\* The cache update keeping only the newest entry.
CachePut_OnlyLatest(cache, sig, deduped) == (sig :> deduped)

\* The success path without the cache update.
CachePut_Skipped(cache, sig, deduped) == cache

\* { ...state.fieldsCache, [sig]: deduped }
CachePut(cache, sig, deduped) == With(cache, sig, deduped)

Count(sig) == IF sig \in DOMAIN svcCount THEN svcCount[sig] ELSE 0

\* The record of one setSelectedPdfs call.
Call(pdfs, path, state, result, overlapped) ==
    [pdfs |-> pdfs, sig |-> selectionSignature(pdfs), path |-> path,
     state |-> state, error |-> NoError, before |-> combinedFields,
     result |-> result, overlapped |-> overlapped, resetAfter |-> FALSE]

\* What is kept of a call that had settled before a reset.
Forgotten ==
    [pdfs |-> <<>>, sig |-> "", path |-> "none", state |-> "forgotten",
     error |-> NoError, before |-> <<>>, result |-> <<>>, overlapped |-> TRUE,
     resetAfter |-> TRUE]

\* Another operation started: every call still awaiting its response has
\* been overlapped.
MarkOverlapped(cs) ==
    [i \in 1..Len(cs) |->
        IF cs[i].state = "pending" THEN [cs[i] EXCEPT !.overlapped = TRUE] ELSE cs[i]]

\* setSelectedPdfs also emptying the values the user entered.
setSelectedPdfs_ClearsValues(pdfs) ==
    LET n      == Len(calls) + 1
        sig    == selectionSignature(pdfs)
        cached == CacheGet(fieldsCache, sig)
        path   == FetchPath(fieldsCache, pdfs)
        busy   == inflight # {}
    IN  /\ selectedPdfs' = pdfs
        /\ IF path = "hit"
           THEN /\ combinedFields' = cached[1]
                /\ calls' = Append(MarkOverlapped(calls),
                                   Call(pdfs, path, "fulfilled", cached[1], busy))
                /\ UNCHANGED <<isLoadingFields, inflight, svcCount>>
           ELSE IF path = "empty"
           THEN /\ combinedFields' = <<>>
                /\ calls' = Append(MarkOverlapped(calls),
                                   Call(pdfs, path, "fulfilled", <<>>, busy))
                /\ UNCHANGED <<isLoadingFields, inflight, svcCount>>
           ELSE /\ isLoadingFields' = TRUE
                /\ inflight' = inflight \cup {[call |-> n, pdfs |-> pdfs, sig |-> sig]}
                /\ svcCount' = With(svcCount, sig, Count(sig) + 1)
                /\ calls' = Append(MarkOverlapped(calls),
                                   Call(pdfs, path, "pending", <<>>, busy))
                /\ UNCHANGED combinedFields
        /\ last' = Step("setSelectedPdfs", n, NoError)
        /\ fieldValues' = EmptyMap
        /\ UNCHANGED <<allPdfs, schemaVersion, isLoadingPdfs, isFilling,
                       fieldsCache, listInflight, schemaInflight, nResets>>

\* setSelectedPdfs(pdfs), run up to the await of the service's response:
\* set({ selectedPdfs }), then fetchCombinedFields() up to line 80.
setSelectedPdfs(pdfs) ==
    LET n      == Len(calls) + 1
        sig    == selectionSignature(pdfs)
        cached == CacheGet(fieldsCache, sig)
        path   == FetchPath(fieldsCache, pdfs)
        busy   == inflight # {}
    IN  /\ selectedPdfs' = pdfs
        /\ IF path = "hit"
           THEN /\ combinedFields' = cached[1]
                /\ calls' = Append(MarkOverlapped(calls),
                                   Call(pdfs, path, "fulfilled", cached[1], busy))
                /\ UNCHANGED <<isLoadingFields, inflight, svcCount>>
           ELSE IF path = "empty"
           THEN /\ combinedFields' = <<>>
                /\ calls' = Append(MarkOverlapped(calls),
                                   Call(pdfs, path, "fulfilled", <<>>, busy))
                /\ UNCHANGED <<isLoadingFields, inflight, svcCount>>
           ELSE /\ isLoadingFields' = TRUE
                /\ inflight' = inflight \cup {[call |-> n, pdfs |-> pdfs, sig |-> sig]}
                /\ svcCount' = With(svcCount, sig, Count(sig) + 1)
                /\ calls' = Append(MarkOverlapped(calls),
                                   Call(pdfs, path, "pending", <<>>, busy))
                /\ UNCHANGED combinedFields
        /\ last' = Step("setSelectedPdfs", n, NoError)
        /\ UNCHANGED <<allPdfs, fieldValues, schemaVersion, isLoadingPdfs, isFilling,
                       fieldsCache, listInflight, schemaInflight, nResets>>

\* The success path storing res.fields as they came.
RespondOk_CachesRaw(r, raw) ==
    /\ r \in inflight
    /\ inflight' = inflight \ {r}
    /\ combinedFields' = raw
    /\ fieldsCache' = CachePut(fieldsCache, r.sig, raw)
    /\ isLoadingFields' = FALSE
    /\ calls' = [calls EXCEPT ![r.call].state = "fulfilled", ![r.call].result = raw]
    /\ last' = [Step("respondOk", r.call, NoError) EXCEPT !.raw = raw]
    /\ UNCHANGED <<allPdfs, selectedPdfs, fieldValues, schemaVersion, isLoadingPdfs,
                   isFilling, listInflight, schemaInflight, svcCount, nResets>>

\* The success path showing the answer only if the selection still has the
\* signature of the request.
RespondOk_DropsStale(r, raw) ==
    LET d == dedupeFields(raw)
    IN  /\ r \in inflight
        /\ inflight' = inflight \ {r}
        /\ combinedFields' = IF r.sig = selectionSignature(selectedPdfs)
                              THEN d ELSE combinedFields
        /\ fieldsCache' = CachePut(fieldsCache, r.sig, d)
        /\ isLoadingFields' = FALSE
        /\ calls' = [calls EXCEPT ![r.call].state = "fulfilled", ![r.call].result = d]
        /\ last' = [Step("respondOk", r.call, NoError) EXCEPT !.raw = raw]
        /\ UNCHANGED <<allPdfs, selectedPdfs, fieldValues, schemaVersion, isLoadingPdfs,
                       isFilling, listInflight, schemaInflight, svcCount, nResets>>

\* The service answers request r with the raw field list raw: lines 80-88.
RespondOk(r, raw) ==
    LET d == dedupeFields(raw)
    IN  /\ r \in inflight
        /\ inflight' = inflight \ {r}
        /\ combinedFields' = d
        /\ fieldsCache' = CachePut(fieldsCache, r.sig, d)
        /\ isLoadingFields' = FALSE
        /\ calls' = [calls EXCEPT ![r.call].state = "fulfilled", ![r.call].result = d]
        /\ last' = [Step("respondOk", r.call, NoError) EXCEPT !.raw = raw]
        /\ UNCHANGED <<allPdfs, selectedPdfs, fieldValues, schemaVersion, isLoadingPdfs,
                       isFilling, listInflight, schemaInflight, svcCount, nResets>>

\* The failure path without the finally block.
RespondFail_NoFinally(r, e) ==
    /\ r \in inflight
    /\ inflight' = inflight \ {r}
    /\ calls' = [calls EXCEPT ![r.call].state = "rejected", ![r.call].error = e,
                              ![r.call].result = combinedFields]
    /\ last' = Step("respondFail", r.call, e)
    /\ UNCHANGED <<allPdfs, selectedPdfs, combinedFields, fieldValues, schemaVersion,
                   isLoadingPdfs, isLoadingFields, isFilling, fieldsCache, listInflight,
                   schemaInflight, svcCount, nResets>>

\* The failure path that also puts the selection back to empty.
RespondFail_RollsBack(r, e) ==
    /\ r \in inflight
    /\ inflight' = inflight \ {r}
    /\ isLoadingFields' = FALSE
    /\ selectedPdfs' = <<>>
    /\ calls' = [calls EXCEPT ![r.call].state = "rejected", ![r.call].error = e,
                              ![r.call].result = combinedFields]
    /\ last' = Step("respondFail", r.call, e)
    /\ UNCHANGED <<allPdfs, combinedFields, fieldValues, schemaVersion,
                   isLoadingPdfs, isFilling, fieldsCache, listInflight, schemaInflight,
                   svcCount, nResets>>

\* The failure path with a catch that clears the list and swallows e.
RespondFail_Clears(r, e) ==
    /\ r \in inflight
    /\ inflight' = inflight \ {r}
    /\ isLoadingFields' = FALSE
    /\ combinedFields' = <<>>
    /\ calls' = [calls EXCEPT ![r.call].state = "fulfilled", ![r.call].result = <<>>]
    /\ last' = Step("respondFail", r.call, NoError)
    /\ UNCHANGED <<allPdfs, selectedPdfs, fieldValues, schemaVersion, isLoadingPdfs,
                   isFilling, fieldsCache, listInflight, schemaInflight, svcCount, nResets>>

\* The request of r fails with error e: the finally of lines 86-88 runs and
\* e leaves fetchCombinedFields and setSelectedPdfs uncaught.
RespondFail(r, e) ==
    /\ r \in inflight
    /\ inflight' = inflight \ {r}
    /\ isLoadingFields' = FALSE
    /\ calls' = [calls EXCEPT ![r.call].state = "rejected", ![r.call].error = e,
                              ![r.call].result = combinedFields]
    /\ last' = Step("respondFail", r.call, e)
    /\ UNCHANGED <<allPdfs, selectedPdfs, combinedFields, fieldValues, schemaVersion,
                   isLoadingPdfs, isFilling, fieldsCache, listInflight, schemaInflight,
                   svcCount, nResets>>

Slots == {"allPdfs", "selectedPdfs", "combinedFields", "fieldValues", "schemaVersion",
          "isLoadingPdfs", "isLoadingFields", "isFilling", "fieldsCache"}

AtInitialValue(slot) ==
    CASE slot = "allPdfs"         -> allPdfs = <<>>
      [] slot = "selectedPdfs"    -> selectedPdfs = <<>>
      [] slot = "combinedFields"  -> combinedFields = <<>>
      [] slot = "fieldValues"     -> fieldValues = EmptyMap
      [] slot = "schemaVersion"   -> schemaVersion = Null
      [] slot = "isLoadingPdfs"   -> isLoadingPdfs = FALSE
      [] slot = "isLoadingFields" -> isLoadingFields = FALSE
      [] slot = "isFilling"       -> isFilling = FALSE
      [] slot = "fieldsCache"     -> fieldsCache = NoCache

\* reset() that forgets the cache.
reset_KeepsCache ==
    /\ allPdfs' = <<>>
    /\ selectedPdfs' = <<>>
    /\ combinedFields' = <<>>
    /\ fieldValues' = EmptyMap
    /\ schemaVersion' = Null
    /\ isLoadingPdfs' = FALSE
    /\ isLoadingFields' = FALSE
    /\ isFilling' = FALSE
    /\ svcCount' = EmptyMap
    /\ nResets' = nResets + 1
    /\ calls' = [i \in 1..Len(calls) |->
                    IF calls[i].state = "pending"
                    THEN [calls[i] EXCEPT !.overlapped = TRUE, !.resetAfter = TRUE]
                    ELSE Forgotten]
    /\ last' = [Step("reset", 0, NoError) EXCEPT
                    !.cleared = { x \in Slots : ~AtInitialValue(x) }]
    /\ UNCHANGED <<fieldsCache, inflight, listInflight, schemaInflight>>

\* reset(): lines 95-107.  Requests in flight are not cancelled.
reset ==
    /\ allPdfs' = <<>>
    /\ selectedPdfs' = <<>>
    /\ combinedFields' = <<>>
    /\ fieldValues' = EmptyMap
    /\ schemaVersion' = Null
    /\ isLoadingPdfs' = FALSE
    /\ isLoadingFields' = FALSE
    /\ isFilling' = FALSE
    /\ fieldsCache' = NoCache
    /\ svcCount' = EmptyMap
    /\ nResets' = nResets + 1
    /\ calls' = [i \in 1..Len(calls) |->
                    IF calls[i].state = "pending"
                    THEN [calls[i] EXCEPT !.overlapped = TRUE, !.resetAfter = TRUE]
                    ELSE Forgotten]
    /\ last' = [Step("reset", 0, NoError) EXCEPT
                    !.cleared = { x \in Slots : ~AtInitialValue(x) }]
    /\ UNCHANGED <<inflight, listInflight, schemaInflight>>

\* loadPdfs(): lines 44-52.
loadPdfs ==
    /\ isLoadingPdfs' = TRUE
    /\ listInflight' = listInflight + 1
    /\ calls' = MarkOverlapped(calls)
    /\ last' = Step("loadPdfs", 0, NoError)
    /\ UNCHANGED <<allPdfs, selectedPdfs, combinedFields, fieldValues, schemaVersion,
                   isLoadingFields, isFilling, fieldsCache, inflight, schemaInflight,
                   svcCount, nResets>>

ListOk(pdfs) ==
    /\ listInflight > 0
    /\ listInflight' = listInflight - 1
    /\ allPdfs' = pdfs
    /\ isLoadingPdfs' = FALSE
    /\ last' = Step("listOk", 0, NoError)
    /\ UNCHANGED <<selectedPdfs, combinedFields, fieldValues, schemaVersion,
                   isLoadingFields, isFilling, fieldsCache, inflight, schemaInflight,
                   calls, svcCount, nResets>>

\* The failure of the listing without the finally block.
ListFail_NoFinally(e) ==
    /\ listInflight > 0
    /\ listInflight' = listInflight - 1
    /\ last' = Step("listFail", 0, e)
    /\ UNCHANGED <<allPdfs, selectedPdfs, combinedFields, fieldValues, schemaVersion,
                   isLoadingPdfs, isLoadingFields, isFilling, fieldsCache, inflight,
                   schemaInflight, calls, svcCount, nResets>>

ListFail(e) ==
    /\ listInflight > 0
    /\ listInflight' = listInflight - 1
    /\ isLoadingPdfs' = FALSE
    /\ last' = Step("listFail", 0, e)
    /\ UNCHANGED <<allPdfs, selectedPdfs, combinedFields, fieldValues, schemaVersion,
                   isLoadingFields, isFilling, fieldsCache, inflight, schemaInflight,
                   calls, svcCount, nResets>>

\* loadSchema(): lines 54-58.
loadSchema ==
    /\ schemaInflight' = schemaInflight + 1
    /\ calls' = MarkOverlapped(calls)
    /\ last' = Step("loadSchema", 0, NoError)
    /\ UNCHANGED <<storeVars, inflight, listInflight, svcCount, nResets>>

\* A schema.version value is its typeof and its text.
\* typeof v === 'string' ? v : String(v)
ToVersionString(v) == IF v.typeof = "string" THEN v.text ELSE v.text

SchemaOk(v) ==
    /\ schemaInflight > 0
    /\ schemaInflight' = schemaInflight - 1
    /\ schemaVersion' = ToVersionString(v)
    /\ last' = Step("schemaOk", 0, NoError)
    /\ UNCHANGED <<allPdfs, selectedPdfs, combinedFields, fieldValues, isLoadingPdfs,
                   isLoadingFields, isFilling, fieldsCache, inflight, listInflight,
                   calls, svcCount, nResets>>

SchemaFail(e) ==
    /\ schemaInflight > 0
    /\ schemaInflight' = schemaInflight - 1
    /\ last' = Step("schemaFail", 0, e)
    /\ UNCHANGED <<storeVars, inflight, listInflight, calls, svcCount, nResets>>

\* updateFieldValue storing { [name]: value } without the spread of the
\* values held so far.
updateFieldValue_DropsOthers(name, value) ==
    /\ fieldValues' = (name :> value)
    /\ calls' = MarkOverlapped(calls)
    /\ last' = [Step("updateFieldValue", 0, NoError) EXCEPT !.raw = <<name, value>>]
    /\ UNCHANGED <<allPdfs, selectedPdfs, combinedFields, schemaVersion, isLoadingPdfs,
                   isLoadingFields, isFilling, fieldsCache, envVars, svcCount, nResets>>

\* updateFieldValue(name, value): lines 91-93.  `last` keeps the arguments.
updateFieldValue(name, value) ==
    /\ fieldValues' = With(fieldValues, name, value)
    /\ calls' = MarkOverlapped(calls)
    /\ last' = [Step("updateFieldValue", 0, NoError) EXCEPT !.raw = <<name, value>>]
    /\ UNCHANGED <<allPdfs, selectedPdfs, combinedFields, schemaVersion, isLoadingPdfs,
                   isLoadingFields, isFilling, fieldsCache, envVars, svcCount, nResets>>

-----------------------------------------------------------------------------
(* Inputs and answers of the store's runs.                                 *)

\* The arguments of setSelectedPdfs: the empty selection, one and two
\* documents, one set in both orders, identifiers that tie under
\* localeCompare, and the names "" and "constructor".
Selections ==
    { <<>>, <<"a">>, <<"a", "b">>, <<"b", "a">>,
      <<IdNFC, IdNFD>>, <<IdNFD, IdNFC>>, <<"">>, <<"constructor">> }

\* Raw answers of POST /combined_fields: one with two descriptors that
\* merge, one with a single descriptor.
RawResponses ==
    { << [name |-> <<"A">>, kind |-> "text", required |-> TRUE,
          options |-> <<"US", "CA">>, occurrences |-> ("a.pdf" :> 1)],
         [name |-> <<" ", "a">>, kind |-> "number",
          options |-> <<"CA", "MX", "CA">>,
          occurrences |-> ("a.pdf" :> 2 @@ "b.pdf" :> 1)] >>,
      << [name |-> <<"B">>, kind |-> "text"] >> }

\* The ApiError thrown by request() (api.ts lines 37-46).
ServiceErrors == { "ApiError 500" }

-----------------------------------------------------------------------------
(* Spec: the selection store and the external service.                     *)

PureIdle == DedupeIdle /\ SigIdle /\ ApiIdle /\ LibIdle /\ pc = "store"

Init == StoreInit /\ EnvInit /\ ObsInit /\ PureIdle

Next ==
    \/ \E pdfs \in Selections :
          Len(calls) < MaxCalls /\ setSelectedPdfs(pdfs) /\ UNCHANGED <<dedupeVars, sigVars, apiVars, libVars, pc>>
    \/ \E r \in inflight, raw \in RawResponses :
          RespondOk(r, raw) /\ UNCHANGED <<dedupeVars, sigVars, apiVars, libVars, pc>>
    \/ \E r \in inflight, e \in ServiceErrors :
          RespondFail(r, e) /\ UNCHANGED <<dedupeVars, sigVars, apiVars, libVars, pc>>
    \/ nResets < MaxResets /\ Len(calls) > 0 /\ reset /\ UNCHANGED <<dedupeVars, sigVars, apiVars, libVars, pc>>

Spec == Init /\ [][Next]_vars

\* Every request the service has received is answered or fails.
Settle ==
    /\ \E r \in inflight :
          \/ \E raw \in RawResponses : RespondOk(r, raw)
          \/ \E e \in ServiceErrors : RespondFail(r, e)
    /\ UNCHANGED <<dedupeVars, sigVars, apiVars, libVars, pc>>

FairSpec == Spec /\ WF_vars(Settle)

-----------------------------------------------------------------------------
(* SpecFull: every operation of the store (loadPdfs, loadSchema,           *)
(* updateFieldValue too) over fewer selections.                            *)

FullSelections == { <<>>, <<"a">>, <<"b", "a">> }

\* Answers of GET /pdfs and GET /fields_schema, and the user's input.
Listings       == { <<"a", "b">> }
SchemaVersions == { [typeof |-> "string", text |-> "v1"], [typeof |-> "number", text |-> "2"] }
FieldNames     == { "name", "age" }
FieldInputs    == { "John Doe" }

PureUnchanged == UNCHANGED <<dedupeVars, sigVars, apiVars, libVars, pc>>

NextFull ==
    \/ \E pdfs \in FullSelections :
          Len(calls) < MaxFullCalls /\ setSelectedPdfs(pdfs) /\ PureUnchanged
    \/ \E r \in inflight, raw \in RawResponses : RespondOk(r, raw) /\ PureUnchanged
    \/ \E r \in inflight, e \in ServiceErrors : RespondFail(r, e) /\ PureUnchanged
    \/ nResets < MaxResets /\ reset /\ PureUnchanged
    \/ listInflight < MaxAuxInflight /\ loadPdfs /\ PureUnchanged
    \/ \E pdfs \in Listings : ListOk(pdfs) /\ PureUnchanged
    \/ \E e \in ServiceErrors : ListFail(e) /\ PureUnchanged
    \/ schemaInflight < MaxAuxInflight /\ loadSchema /\ PureUnchanged
    \/ \E v \in SchemaVersions : SchemaOk(v) /\ PureUnchanged
    \/ \E e \in ServiceErrors : SchemaFail(e) /\ PureUnchanged
    \/ \E value \in FieldInputs :
          updateFieldValue("name", value) /\ PureUnchanged

SpecFull == Init /\ [][NextFull]_vars

-----------------------------------------------------------------------------
(* SpecForm: the user fills in the form while selections are made and      *)
(* answered.                                                               *)

FormInputs == { "John Doe", "Jane" }

NextForm ==
    \/ \E pdfs \in FullSelections :
          Len(calls) < MaxFullCalls /\ setSelectedPdfs(pdfs) /\ PureUnchanged
    \/ \E r \in inflight, raw \in RawResponses : RespondOk(r, raw) /\ PureUnchanged
    \/ \E r \in inflight, e \in ServiceErrors : RespondFail(r, e) /\ PureUnchanged
    \/ nResets < MaxResets /\ reset /\ PureUnchanged
    \/ \E name \in FieldNames, value \in FormInputs :
          updateFieldValue(name, value) /\ PureUnchanged

SpecForm == Init /\ [][NextForm]_vars

-----------------------------------------------------------------------------
(* LibraryList.tsx: the selection handlers.                                *)

\* The listing the library shows, and what the user types in the search box.
LibraryListings == { <<"a", "b", "a||b">> }
Queries == { "", " A" }

\* query.trim().toLowerCase()
NormalizeQuery(q) == CASE q = ""   -> ""
                       [] q = " A" -> "a"

\* n.toLowerCase().includes(q) for the names of the listing.
IncludesLower(n, q) ==
    \/ q = ""
    \/ q = "a" /\ n \in {"a", "a||b"}

\* filtered (lines 28-37); the tag filter changes nothing.
Filtered(list, q) ==
    LET nq == NormalizeQuery(q)
    IN  IF nq = "" THEN list ELSE SelectSeq(list, LAMBDA n : IncludesLower(n, nq))

\* onToggle passing [...selectedPdfs, name] whether or not name is selected.
ToggleList_AlwaysAdds(selected, name) == Append(selected, name)

\* The list onToggle passes on (lines 40-43): a Set keeps insertion order.
ToggleList(selected, name) ==
    LET set == Unique(selected)
    IN  IF name \in Range(set)
        THEN SelectSeq(set, LAMBDA x : x # name)
        ELSE Append(set, name)

\* The list onSelectAll passes on (line 47).
UnionList(selected, filtered) == Unique(selected \o filtered)

LibUnchanged == UNCHANGED <<query, dedupeVars, sigVars, apiVars, pc>>

\* The checkbox of name is rendered when the listing is not loading and
\* name is in filtered.
onToggle(name) ==
    /\ ~isLoadingPdfs
    /\ name \in Range(Filtered(allPdfs, query))
    /\ setSelectedPdfs(ToggleList(selectedPdfs, name))
    /\ handler' = [op |-> "onToggle", name |-> name]
    /\ LibUnchanged

\* "Select all" is disabled while filtered is empty.
onSelectAll ==
    /\ Len(Filtered(allPdfs, query)) > 0
    /\ setSelectedPdfs(UnionList(selectedPdfs, Filtered(allPdfs, query)))
    /\ handler' = [op |-> "onSelectAll", name |-> ""]
    /\ LibUnchanged

\* "Clear all" is disabled while nothing is selected.
onClearAll ==
    /\ Len(selectedPdfs) > 0
    /\ setSelectedPdfs(<<>>)
    /\ handler' = [op |-> "onClearAll", name |-> ""]
    /\ LibUnchanged

\* The user types in the search box.
setQuery(q) ==
    /\ q # query
    /\ query' = q
    /\ UNCHANGED <<storeVars, envVars, obsVars, handler, dedupeVars, sigVars, apiVars, pc>>

\* The effect on mount (lines 21-26).
Mount ==
    /\ last.op = "init"
    /\ Len(allPdfs) = 0
    /\ loadPdfs
    /\ PureUnchanged

\* The answers to the requests the library's run sends.
LibResponses == { << [name |-> <<"B">>, kind |-> "text"] >> }

NextLibrary ==
    \/ Mount
    \/ \E pdfs \in LibraryListings : ListOk(pdfs) /\ PureUnchanged
    \/ \E q \in Queries : setQuery(q)
    \/ \E name \in Ids : Len(calls) < MaxLibCalls /\ onToggle(name)
    \/ Len(calls) < MaxLibCalls /\ onSelectAll
    \/ Len(calls) < MaxLibCalls /\ onClearAll
    \/ \E r \in inflight, raw \in LibResponses : RespondOk(r, raw) /\ PureUnchanged
    \/ \E r \in inflight, e \in ServiceErrors : RespondFail(r, e) /\ PureUnchanged

SpecLibrary == Init /\ [][NextLibrary]_vars

-----------------------------------------------------------------------------
(* api.ts: request().                                                      *)

API_BASE == "/api"

\* The RequestOptions the exported functions pass (lines 53-71).
Endpoints ==
    { [fn |-> "listPdfs",          path |-> "/pdfs",             responseType |-> "json"],
      [fn |-> "getSchema",         path |-> "/fields_schema",    responseType |-> "json"],
      [fn |-> "getCombinedFields", path |-> "/combined_fields",  responseType |-> "json"],
      [fn |-> "fillPdf",           path |-> "/fill",             responseType |-> "blob"],
      [fn |-> "adminRegenerate",   path |-> "/admin/regenerate", responseType |-> "json"] }

\* A response body: whether res.json() parses it, the text
\* JSON.stringify gives for the parsed value, and the value's message
\* property (<<>> if the value has none or is null) with its typeof.
Bodies ==
    { [parses |-> FALSE, text |-> "<html>Bad Gateway</html>", message |-> <<>>],
      [parses |-> TRUE, text |-> "{\"message\":\"boom\"}",
       message |-> <<[typeof |-> "string", text |-> "boom"]>>],
      [parses |-> TRUE, text |-> "{\"message\":42}",
       message |-> <<[typeof |-> "number", text |-> "42"]>>],
      [parses |-> TRUE, text |-> "{\"detail\":\"x\"}", message |-> <<>>],
      [parses |-> TRUE, text |-> "null", message |-> <<>>],
      [parses |-> TRUE, text |-> "[\"a.pdf\",\"b.pdf\"]", message |-> <<>>] }

Statuses ==
    { [status |-> 200, statusText |-> "OK"],
      [status |-> 404, statusText |-> "Not Found"],
      [status |-> 500, statusText |-> "Internal Server Error"] }

\* What await fetch(url, init) gives: a rejection (no connection, CORS,
\* aborted) or a Response.
FetchResults ==
    { [kind |-> "rejected", error |-> "TypeError"] }
      \cup { [kind |-> "response", status |-> st.status, statusText |-> st.statusText,
              body |-> b] : st \in Statuses, b \in Bodies }

\* Response.ok
Ok(res) == res.status >= 200 /\ res.status <= 299

Thrown(name, message, status, url) ==
    [kind |-> "throw", error |-> name, message |-> message, status |-> status, url |-> url,
     value |-> ""]

Returned(as, text) ==
    [kind |-> "return", error |-> NoError, message |-> "", status |-> 0, url |-> "",
     value |-> <<as, text>>]

\* lines 38-44: the detail of the error message.
Detail(res) ==
    IF ~res.body.parses THEN res.statusText
    ELSE IF res.body.message # <<>> /\ res.body.message[1].typeof = "string"
         THEN res.body.message[1].text
         ELSE res.body.text

\* request(): lines 25-51.
request(args, fr) ==
    LET url == API_BASE \o args.path
    IN  IF fr.kind = "rejected" THEN Thrown(fr.error, "", 0, "")
        ELSE IF ~Ok(fr)
             THEN Thrown("ApiError", "Request failed: " \o Detail(fr), fr.status, url)
        ELSE IF args.responseType = "blob" THEN Returned("blob", fr.body.text)
        ELSE IF fr.body.parses THEN Returned("json", fr.body.text)
        ELSE Thrown("SyntaxError", "", 0, "")

InitApi ==
    /\ StoreInit /\ EnvInit /\ ObsInit /\ DedupeIdle /\ SigIdle /\ LibIdle
    /\ apiArgs \in Endpoints
    /\ fetchResult \in FetchResults
    /\ apiOutcome = <<>>
    /\ pc = "call"

CallRequest ==
    /\ pc = "call"
    /\ apiOutcome' = request(apiArgs, fetchResult)
    /\ pc' = "done"
    /\ UNCHANGED <<storeVars, envVars, obsVars, dedupeVars, sigVars, libVars,
                   apiArgs, fetchResult>>

NextApi == CallRequest

SpecApi == InitApi /\ [][NextApi]_vars

-----------------------------------------------------------------------------
(* SpecDedupe: dedupeFields on every input of at most MaxFields            *)
(* descriptors drawn from FieldPool.                                       *)

InitDedupe ==
    /\ StoreInit /\ EnvInit /\ ObsInit /\ SigIdle /\ ApiIdle /\ LibIdle
    /\ fields \in SeqsUpTo(FieldPool, MaxFields)
    /\ dedupeOut = <<>>
    /\ dedupeAgain = <<>>
    /\ outRefs = <<>>
    /\ pc = "call"

\* out = dedupeFields(fields), then dedupeFields(out).
CallDedupe ==
    /\ pc = "call"
    /\ dedupeOut' = dedupeFields(fields)
    /\ outRefs' = dedupeFieldsRefs(fields)
    /\ dedupeAgain' = dedupeFields(dedupeOut')
    /\ pc' = "done"
    /\ UNCHANGED <<storeVars, envVars, obsVars, sigVars, apiVars, libVars, fields>>

NextDedupe == CallDedupe

SpecDedupe == InitDedupe /\ [][NextDedupe]_vars

-----------------------------------------------------------------------------
(* SpecSig: selectionSignature on every pair of lists of at most           *)
(* MaxSigLen identifiers.                                                  *)

InitSig ==
    /\ StoreInit /\ EnvInit /\ ObsInit /\ DedupeIdle /\ ApiIdle /\ LibIdle
    /\ pdfsA \in SeqsUpTo(Ids, MaxSigLen)
    /\ pdfsB \in SeqsUpTo(Ids, MaxSigLen)
    /\ sigA = "" /\ sigB = ""
    /\ pc = "call"

CallSignature ==
    /\ pc = "call"
    /\ sigA' = selectionSignature(pdfsA)
    /\ sigB' = selectionSignature(pdfsB)
    /\ pc' = "done"
    /\ UNCHANGED <<storeVars, envVars, obsVars, dedupeVars, apiVars, libVars, pdfsA, pdfsB>>

NextSig == CallSignature

SpecSig == InitSig /\ [][NextSig]_vars

-----------------------------------------------------------------------------
(* Vocabulary of the properties.                                           *)

\* The name after trim + lowercase, stated from the positions that survive:
\* those between the first and the last character that is not whitespace.
TrimLower(name) ==
    LET kept == { i \in 1..Len(name) :
                    /\ \E j \in 1..i : name[j] \notin Whitespace
                    /\ \E k \in i..Len(name) : name[k] \notin Whitespace }
    IN  IF kept = {} THEN <<>>
        ELSE LET lo == CHOOSE i \in kept : \A j \in kept : i <= j
             IN  [i \in 1..Cardinality(kept) |-> ToLowerChar(name[lo + i - 1])]

Occurrences(x, xs) == Cardinality({ i \in 1..Len(xs) : xs[i] = x })

IsPermutation(xs, ys) ==
    /\ Len(xs) = Len(ys)
    /\ \A x \in Range(xs) \cup Range(ys) : Occurrences(x, xs) = Occurrences(x, ys)

-----------------------------------------------------------------------------
(* Properties of dedupeFields (SpecDedupe).                                *)

\* C1: the output of dedupeFields has no two entries whose names are equal
\* after trim + lowercase, and the normalized names of the output are
\* exactly the normalized names of the input (one entry for each).
C1_OneEntryPerNormalizedName ==
    pc = "done" =>
        /\ \A i, j \in 1..Len(dedupeOut) :
              i # j => TrimLower(dedupeOut[i].name) # TrimLower(dedupeOut[j].name)
        /\ { TrimLower(dedupeOut[i].name) : i \in 1..Len(dedupeOut) }
              = { TrimLower(fields[i].name) : i \in 1..Len(fields) }

\* C1 witness: three descriptors, the first and the third with names that
\* differ in case and whitespace only, merged into two entries.
C1_Witness ==
    /\ pc = "done"
    /\ Len(fields) = 3
    /\ fields[1].name = <<"A">> /\ fields[2].name = <<"B">> /\ fields[3].name = <<" ", "a">>
    /\ Len(dedupeOut) = 2

\* The input descriptors that count towards an output entry: those whose
\* name is the entry's name up to case and surrounding whitespace.
Contributors(entry) ==
    { i \in 1..Len(fields) : TrimLower(fields[i].name) = TrimLower(entry.name) }

Least(S) == CHOOSE i \in S : \A j \in S : i <= j

\* fields[i] is the first descriptor of the input with its normalized name.
IsFirstSeen(i) ==
    \A j \in 1..(i - 1) : TrimLower(fields[j].name) # TrimLower(fields[i].name)

IsTrue(f, prop) == Has(f, prop) /\ f[prop] = TRUE

\* C11: dedupeFields is idempotent: applied to its own output it returns
\* that output, entry for entry and property for property.
C11_Idempotent ==
    pc = "done" => dedupeAgain = dedupeOut

\* C11 witness: three descriptors merged into two entries, one of them with
\* the three merged options, and the second application returned the same.
C11_Witness ==
    /\ pc = "done"
    /\ Len(fields) = 3 /\ Len(dedupeOut) = 2
    /\ \E k \in 1..2 : Has(dedupeOut[k], "options") /\ Len(dedupeOut[k].options) = 3
    /\ dedupeAgain = dedupeOut

\* C12: two input descriptors went into the same output entry exactly when
\* their names are equal after trimming and lowercasing, and there are as
\* many entries as there are such names.
C12_MergedIffSameNormalizedName ==
    pc = "done" =>
        /\ Len(outRefs) = Len(dedupeOut)
        /\ \A i, j \in 1..Len(fields) :
              (TrimLower(fields[i].name) = TrimLower(fields[j].name))
                <=> (\E k \in 1..Len(outRefs) : {i, j} \subseteq outRefs[k].from)
        /\ Len(dedupeOut)
              = Cardinality({ TrimLower(fields[i].name) : i \in 1..Len(fields) })

\* C12 witness: "A" and " a" merged into one entry while "B" stayed apart.
C12_Witness ==
    /\ pc = "done"
    /\ Len(fields) = 3
    /\ fields[1].name = <<"A">> /\ fields[2].name = <<" ", "a">> /\ fields[3].name = <<"B">>
    /\ Len(dedupeOut) = 2
    /\ outRefs[1].from = {1, 2} /\ outRefs[2].from = {3}

\* C13: every first-seen input descriptor has an output entry that it went
\* into and that carries exactly its name and its kind, and there is no
\* other entry.
C13_FirstNameAndKind ==
    pc = "done" =>
        /\ \A i \in 1..Len(fields) :
              IsFirstSeen(i) =>
                 \E k \in 1..Len(dedupeOut) :
                    /\ i \in outRefs[k].from
                    /\ dedupeOut[k].name = fields[i].name
                    /\ dedupeOut[k].kind = fields[i].kind
        /\ Len(dedupeOut) = Cardinality({ i \in 1..Len(fields) : IsFirstSeen(i) })

\* C13 witness: " a" of kind number followed by "A" of kind text; the entry
\* keeps " a" and number.
C13_Witness ==
    /\ pc = "done"
    /\ Len(fields) = 2
    /\ fields[1].name = <<" ", "a">> /\ fields[1].kind = "number"
    /\ fields[2].name = <<"A">> /\ fields[2].kind = "text"
    /\ Len(dedupeOut) = 1
    /\ dedupeOut[1].name = <<" ", "a">> /\ dedupeOut[1].kind = "number"

\* The count a descriptor has for a document, an absent one being 0.
CountIn(f, pdf) ==
    IF Has(f, "occurrences") /\ pdf \in DOMAIN f.occurrences THEN f.occurrences[pdf] ELSE 0

RECURSIVE SumCounts(_, _)
SumCounts(S, pdf) ==
    IF S = {} THEN 0
    ELSE LET i == Least(S) IN CountIn(fields[i], pdf) + SumCounts(S \ {i}, pdf)

DocumentIds ==
    UNION { DOMAIN fields[i].occurrences :
              i \in { j \in 1..Len(fields) : Has(fields[j], "occurrences") } }

\* C14: for every output entry and every document, the entry's count is the
\* sum of the counts of the contributing descriptors.
C14_OccurrencesAreSums ==
    pc = "done" =>
        \A k \in 1..Len(dedupeOut) : \A pdf \in DocumentIds :
            CountIn(dedupeOut[k], pdf) = SumCounts(Contributors(dedupeOut[k]), pdf)

\* The option lists of the descriptors in S, in input order, one after the
\* other.
RECURSIVE OptionsInOrder(_)
OptionsInOrder(S) ==
    IF S = {} THEN <<>>
    ELSE LET i == Least(S) IN OptsOrEmpty(fields[i]) \o OptionsInOrder(S \ {i})

FirstIndex(xs, x) == Least({ i \in 1..Len(xs) : xs[i] = x })

\* C15: the options of an output entry hold no string twice, hold exactly
\* the strings of the contributing descriptors' options, and hold them in
\* the order in which they first appear in those lists.
C15_OptionsUnion ==
    pc = "done" =>
        \A k \in 1..Len(dedupeOut) :
            Has(dedupeOut[k], "options") =>
                LET o   == dedupeOut[k].options
                    cat == OptionsInOrder(Contributors(dedupeOut[k]))
                IN  /\ \A a, b \in 1..Len(o) : a # b => o[a] # o[b]
                    /\ Range(o) = Range(cat)
                    /\ \A a, b \in 1..Len(o) :
                          a < b => FirstIndex(cat, o[a]) < FirstIndex(cat, o[b])

\* C15 witness: a single descriptor whose options are CA, MX, CA comes out
\* with CA, MX; and CA, MX, CA merged with US, CA gives CA, MX, US.
C15_Witness ==
    /\ pc = "done"
    /\ Len(fields) = 3 /\ Len(dedupeOut) = 2
    /\ Contributors(dedupeOut[1]) = {1}
    /\ fields[1].name = <<"B">>
    /\ Has(fields[1], "options") /\ fields[1].options = <<"CA", "MX", "CA">>
    /\ dedupeOut[1].options = <<"CA", "MX">>
    /\ Has(fields[2], "options") /\ fields[2].options = <<"CA", "MX", "CA">>
    /\ Has(fields[3], "options") /\ fields[3].options = <<"US", "CA">>
    /\ dedupeOut[2].options = <<"CA", "MX", "US">>

\* C16: an output entry has required = true exactly when one of the
\* contributing descriptors has, wherever in the input that descriptor is.
C16_RequiredMonotonic ==
    pc = "done" =>
        \A k \in 1..Len(dedupeOut) :
            IsTrue(dedupeOut[k], "required")
              <=> (\E i \in Contributors(dedupeOut[k]) : IsTrue(fields[i], "required"))

\* C16 witness: required true, then false, then absent on one name; the
\* entry has required true.
C16_Witness ==
    /\ pc = "done"
    /\ Len(fields) = 3 /\ Len(dedupeOut) = 1
    /\ IsTrue(fields[1], "required")
    /\ Has(fields[2], "required") /\ fields[2].required = FALSE
    /\ ~Has(fields[3], "required")
    /\ IsTrue(dedupeOut[1], "required")

\* C17: the output entries are in the order in which their normalized names
\* first appear in the input.
C17_FirstSeenOrder ==
    pc = "done" =>
        \A k1, k2 \in 1..Len(dedupeOut) :
            (k1 < k2) <=> (Least(Contributors(dedupeOut[k1]))
                             < Least(Contributors(dedupeOut[k2])))

\* C17 witness: "A", "B", then a duplicate of "A"; the entry of "A" is still
\* the first.
C17_Witness ==
    /\ pc = "done"
    /\ Len(fields) = 3
    /\ fields[1].name = <<"A">> /\ fields[2].name = <<"B">> /\ fields[3].name = <<"A">>
    /\ Len(dedupeOut) = 2
    /\ dedupeOut[1].name = <<"A">> /\ dedupeOut[2].name = <<"B">>
    /\ outRefs[1].from = {1, 3}

\* C18: dedupeFields returns a list of descriptors for every input and the
\* empty list for the empty one; it assigns to no object of its input, and no output
\* entry is, or holds the options array or occurrences object of, an input
\* descriptor.
C18_PureAndTotal ==
    /\ (pc = "done" /\ fields = <<>>) => dedupeOut = <<>>
    /\ pc = "done" =>
          /\ Len(dedupeOut) <= Len(fields)
          /\ \A k \in 1..Len(dedupeOut) : {"name", "kind"} \subseteq DOMAIN dedupeOut[k]
          /\ Len(outRefs) = Len(dedupeOut)
          /\ \A k \in 1..Len(outRefs) :
                LET r == outRefs[k]
                    input == 1..Len(fields)
                IN  /\ r.self \notin input
                    /\ r.options \notin input
                    /\ r.occurrences \notin input
                    /\ r.written \cap input = {}
                    /\ Has(dedupeOut[k], "options") <=> r.options # NoObject
                    /\ Has(dedupeOut[k], "occurrences") <=> r.occurrences # NoObject

\* C18 witness: a descriptor with options and occurrences alone, and two
\* more merged; every entry holds arrays and objects of its own.
C18_Witness ==
    /\ pc = "done"
    /\ Len(fields) = 3 /\ Len(dedupeOut) = 2
    /\ \A i \in 1..3 : Has(fields[i], "options") /\ Has(fields[i], "occurrences")
    /\ outRefs[1].from = {1} /\ outRefs[2].from = {2, 3}
    /\ \A k \in 1..2 : outRefs[k].options = Fresh /\ outRefs[k].occurrences = Fresh
    /\ outRefs[2].written = {Fresh}

-----------------------------------------------------------------------------
(* Properties of selectionSignature (SpecSig).                             *)

\* C4: the signatures of a list and of any permutation of it are equal.
C4_OrderIndependent ==
    (pc = "done" /\ IsPermutation(pdfsA, pdfsB)) => sigA = sigB

\* C5: two lists with the same identifiers that differ in how often an
\* identifier is repeated have the same signature.
C5_SetSemantics ==
    (pc = "done" /\ Range(pdfsA) = Range(pdfsB) /\ ~IsPermutation(pdfsA, pdfsB))
        => sigA = sigB

\* C27: two lists with the same signature hold the same set of
\* identifiers, and only the empty list has the empty signature.
C27_SignatureIdentifiesSet ==
    pc = "done" =>
        /\ sigA = sigB => Range(pdfsA) = Range(pdfsB)
        /\ sigA = "" => pdfsA = <<>>

-----------------------------------------------------------------------------
(* Properties of the store (Spec, FairSpec, SpecFull).                     *)

CallsOf(sig) == { i \in 1..Len(calls) : calls[i].sig = sig /\ ~calls[i].resetAfter }

C3_CacheHit ==
    /\ (/\ last.op = "setSelectedPdfs"
        /\ calls[last.call].sig \in DOMAIN fieldsCache)
       => /\ combinedFields = fieldsCache[calls[last.call].sig]
          /\ calls[last.call].path = "hit"
          /\ calls[last.call].state = "fulfilled"
    /\ \A i \in 1..(Len(calls) - 1) :
          (/\ calls[i].state = "fulfilled" /\ calls[i + 1].state = "fulfilled"
           /\ ~calls[i].overlapped /\ ~calls[i + 1].overlapped
           /\ ~calls[i].resetAfter
           /\ calls[i].path = "miss"
           /\ IsPermutation(calls[i].pdfs, calls[i + 1].pdfs))
          => /\ calls[i + 1].path = "hit"
             /\ calls[i + 1].result = calls[i].result

\* C6: setSelection([]) ends with an empty combinedFields and makes no
\* request.
C6_EmptySelection ==
    (last.op = "setSelectedPdfs" /\ calls[last.call].pdfs = <<>>)
        => /\ combinedFields = <<>>
           /\ calls[last.call].path # "miss"

\* C7: whenever no getCombinedFields request is in flight the loading flag
\* is false, and if requests settle a raised flag is eventually cleared.
C7_LoadingNeverStuck ==
    /\ [](inflight = {} => ~isLoadingFields)
    /\ [](isLoadingFields => <>(~isLoadingFields))

\* C7 witness: the flag is down after the only request in flight failed.
C7_Witness ==
    /\ last.op = "respondFail"
    /\ inflight = {}
    /\ ~isLoadingFields

\* The step in which the request of a call fails.
FailStep ==
    /\ last'.op = "respondFail"
    /\ last'.call \in 1..Len(calls)
    /\ calls[last'.call].state = "pending"

\* C8: when the request of a call fails, combinedFields, the cache and the
\* number of service invocations stay as they are, no new request is made,
\* and the call is rejected with the error the service raised; for a call
\* nothing overlapped, combinedFields is what it was before the call.
C8_FailureKeepsState ==
    [][FailStep =>
          /\ combinedFields' = combinedFields
          /\ fieldsCache' = fieldsCache
          /\ svcCount' = svcCount
          /\ inflight' \subseteq inflight
          /\ calls'[last'.call].state = "rejected"
          /\ calls'[last'.call].error = last'.error
          /\ last'.error \in ServiceErrors
          /\ calls[last'.call].sig \notin DOMAIN fieldsCache'
             \/ calls[last'.call].overlapped
          /\ combinedFields' = calls[last'.call].before
             \/ calls[last'.call].overlapped]_vars

\* C8 witness: a request failed while a field list fetched earlier is shown.
C8_Witness ==
    /\ last.op = "respondFail"
    /\ ~calls[last.call].overlapped
    /\ calls[last.call].state = "rejected"
    /\ combinedFields # <<>>

\* C9: when the request of a call nothing overlapped is answered,
\* combinedFields is dedupeFields of the raw answer, the cache holds the
\* same value under the signature of the call's argument, and the loading
\* flag is false.
C9_SettledAfterSuccess ==
    (last.op = "respondOk" /\ ~calls[last.call].overlapped)
        => /\ calls[last.call].state = "fulfilled"
           /\ calls[last.call].path = "miss"
           /\ Len(calls[last.call].pdfs) > 0
           /\ combinedFields = dedupeFields(last.raw)
           /\ selectionSignature(calls[last.call].pdfs) \in DOMAIN fieldsCache
           /\ fieldsCache[selectionSignature(calls[last.call].pdfs)] = combinedFields
           /\ ~isLoadingFields

\* C9 witness: an answer with two descriptors that merge into one.
C9_Witness ==
    /\ last.op = "respondOk"
    /\ ~calls[last.call].overlapped
    /\ Len(last.raw) = 2
    /\ Len(combinedFields) = 1

\* A setSelectedPdfs step whose argument is not empty and whose signature
\* the cache does not answer, taken while a request for the same signature
\* is in flight.
OverlappingMissStep ==
    /\ last'.op = "setSelectedPdfs"
    /\ Len(calls') = Len(calls) + 1
    /\ LET c == calls'[Len(calls')]
       IN  /\ Len(c.pdfs) > 0
           /\ c.sig \notin DOMAIN fieldsCache
           /\ c.sig \notin ObjectPrototypeKeys
           /\ \E r \in inflight : r.sig = c.sig

\* C19: a call started while a request for its uncached signature is in
\* flight invokes the service again: the invocations for the signature go
\* up by one and a second request is in flight beside the first.
C19_OverlapInvokesAgain ==
    [][OverlappingMissStep =>
          LET c == calls'[Len(calls')]
          IN  /\ c.path = "miss" /\ c.state = "pending"
              /\ c.sig \in DOMAIN svcCount'
              /\ svcCount'[c.sig] = Count(c.sig) + 1
              /\ inflight \subseteq inflight'
              /\ Cardinality({ r \in inflight' : r.sig = c.sig })
                    = Cardinality({ r \in inflight : r.sig = c.sig }) + 1]_vars

\* C19 witness: two calls with one signature, both awaiting their answer,
\* and two invocations of the service for it.
C19_Witness ==
    \E r1, r2 \in inflight :
        /\ r1.call < r2.call /\ r1.sig = r2.sig
        /\ calls[r1.call].state = "pending" /\ calls[r2.call].state = "pending"
        /\ ~calls[r1.call].resetAfter
        /\ r1.sig \in DOMAIN svcCount /\ svcCount[r1.sig] = 2
        /\ r1.sig \notin DOMAIN fieldsCache

\* The answer to the request of a pending call arrives.
OkStep ==
    /\ last'.op = "respondOk"
    /\ last'.call \in 1..Len(calls)
    /\ calls[last'.call].state = "pending"

\* C20: an answer that arrives is shown whatever the selection is by then,
\* and takes only its own request out of flight; a new call or a reset
\* takes no request out of flight.
C20_LastWriteWins ==
    [][/\ OkStep =>
            /\ combinedFields' = dedupeFields(last'.raw)
            /\ combinedFields' = calls'[last'.call].result
            /\ selectedPdfs' = selectedPdfs
            /\ inflight' = { r \in inflight : r.call # last'.call }
            /\ Cardinality(inflight') = Cardinality(inflight) - 1
       /\ last'.op \in {"setSelectedPdfs", "reset"} => inflight \subseteq inflight']_vars

\* C20 witness: two overlapping calls, both answered, the first one last;
\* the list shown is the one fetched for the first call's signature, not
\* the one cached for the selection.
C20_Witness ==
    /\ inflight = {}
    /\ Len(calls) = 2
    /\ \A i \in 1..2 : calls[i].path = "miss" /\ calls[i].state = "fulfilled"
    /\ calls[1].sig # calls[2].sig
    /\ selectedPdfs = calls[2].pdfs
    /\ last.op = "respondOk" /\ last.call = 1
    /\ combinedFields = calls[1].result
    /\ combinedFields = fieldsCache[calls[1].sig]
    /\ combinedFields # fieldsCache[selectionSignature(selectedPdfs)]

\* C21: selectedPdfs is the argument, as given, of the latest
\* setSelectedPdfs call, or empty if there was none or reset was called
\* after it; this holds after a failed request too.
C21_SelectionIsLastArgument ==
    LET n == Len(calls)
    IN  IF n > 0 /\ ~calls[n].resetAfter
        THEN selectedPdfs = calls[n].pdfs
        ELSE selectedPdfs = <<>>

\* C21 witness: the request for the unsorted selection b, a failed and the
\* selection is still b, a.
C21_Witness ==
    /\ last.op = "respondFail"
    /\ last.call = Len(calls)
    /\ calls[last.call].state = "rejected"
    /\ calls[last.call].pdfs = <<"b", "a">>
    /\ selectedPdfs = <<"b", "a">>

\* C22: a request in flight carries the list its call was given, in the
\* given order, and the signature of that list; when its answer arrives the
\* deduplicated answer is stored under that signature, whatever the
\* selection is by then, and no other cache entry changes.
C22_RequestAndKeyFromCallStart ==
    /\ [](\A r \in inflight :
            /\ r.call \in 1..Len(calls)
            /\ calls[r.call].path = "miss"
            /\ Len(r.pdfs) > 0
            /\ r.pdfs = calls[r.call].pdfs
            /\ r.sig = selectionSignature(calls[r.call].pdfs))
    /\ [][OkStep =>
            LET sig == selectionSignature(calls[last'.call].pdfs)
            IN  /\ DOMAIN fieldsCache' = (DOMAIN fieldsCache) \cup {sig}
                /\ fieldsCache'[sig] = dedupeFields(last'.raw)
                /\ \A s \in (DOMAIN fieldsCache) \ {sig} :
                      fieldsCache'[s] = fieldsCache[s]]_vars

\* C22 witness: the request for b, a was answered after the selection had
\* changed to another set; the answer is cached under a||b and the
\* selection's own signature has no entry.
C22_Witness ==
    /\ last.op = "respondOk"
    /\ calls[last.call].pdfs = <<"b", "a">>
    /\ selectionSignature(selectedPdfs) # "a||b"
    /\ selectedPdfs # <<>>
    /\ "a||b" \in DOMAIN fieldsCache
    /\ fieldsCache["a||b"] = dedupeFields(last.raw)
    /\ selectionSignature(selectedPdfs) \notin DOMAIN fieldsCache

\* C23: loadPdfs raises isLoadingPdfs and sends one listing request; the
\* flag then goes down only when a listing request settles or on reset;
\* the answer puts the returned list in allPdfs and clears the flag; the
\* failure clears the flag, leaves allPdfs alone and raises the service's
\* error; none of the three steps changes the selection, combinedFields
\* or the cache.
C23_LoadPdfs ==
    [][/\ last'.op = "loadPdfs" =>
            /\ isLoadingPdfs'
            /\ listInflight' = listInflight + 1
            /\ allPdfs' = allPdfs
       /\ (isLoadingPdfs /\ ~isLoadingPdfs') => last'.op \in {"listOk", "listFail", "reset"}
       /\ last'.op = "listOk" =>
            /\ listInflight > 0 /\ listInflight' = listInflight - 1
            /\ allPdfs' \in Listings
            /\ ~isLoadingPdfs'
            /\ last'.error = NoError
       /\ last'.op = "listFail" =>
            /\ listInflight > 0 /\ listInflight' = listInflight - 1
            /\ allPdfs' = allPdfs
            /\ ~isLoadingPdfs'
            /\ last'.error \in ServiceErrors
       /\ last'.op \in {"loadPdfs", "listOk", "listFail"} =>
            /\ selectedPdfs' = selectedPdfs
            /\ combinedFields' = combinedFields
            /\ fieldsCache' = fieldsCache]_vars

\* C23 witness: a listing was loaded, a second loadPdfs failed: the flag is
\* down, allPdfs is still the loaded list, and the selection made in between
\* with its fields is in place.
C23_Witness ==
    /\ last.op = "listFail"
    /\ last.error \in ServiceErrors
    /\ ~isLoadingPdfs
    /\ listInflight = 0
    /\ allPdfs = <<"a", "b">>
    /\ selectedPdfs = <<"b", "a">>
    /\ combinedFields # <<>>
    /\ "a||b" \in DOMAIN fieldsCache

\* C24: updateFieldValue(name, value) leaves fieldValues with value under
\* name, the keys it had besides name with their values and no further
\* key, and leaves every other slot, the requests in flight included, as
\* it was.
C24_UpdateFieldValue ==
    [][last'.op = "updateFieldValue" =>
          LET name  == last'.raw[1]
              value == last'.raw[2]
          IN  /\ DOMAIN fieldValues' = (DOMAIN fieldValues) \cup {name}
              /\ fieldValues'[name] = value
              /\ \A k \in (DOMAIN fieldValues) \ {name} : fieldValues'[k] = fieldValues[k]
              /\ allPdfs' = allPdfs
              /\ selectedPdfs' = selectedPdfs
              /\ combinedFields' = combinedFields
              /\ schemaVersion' = schemaVersion
              /\ fieldsCache' = fieldsCache
              /\ isLoadingPdfs' = isLoadingPdfs
              /\ isLoadingFields' = isLoadingFields
              /\ isFilling' = isFilling
              /\ inflight' = inflight]_vars

\* C24 witness: with both fields filled in, a selection shown and a request
\* cached, "name" was overwritten with another value; "age" kept its own.
C24_Witness ==
    /\ last.op = "updateFieldValue"
    /\ last.raw = <<"name", "Jane">>
    /\ DOMAIN fieldValues = {"name", "age"}
    /\ fieldValues["name"] = "Jane"
    /\ fieldValues["age"] = "John Doe"
    /\ selectedPdfs = <<"b", "a">>
    /\ combinedFields # <<>>
    /\ fieldsCache # NoCache

\* The message the claim describes for a response that is not ok: the
\* body's string message, else the JSON text of the body, else the status
\* text when the body is not JSON.
ExpectedDetail ==
    LET b == fetchResult.body
    IN  IF b.parses /\ b.message # <<>> /\ b.message[1].typeof = "string"
        THEN b.message[1].text
        ELSE IF b.parses THEN b.text
        ELSE fetchResult.statusText

\* The part of C25 about a response that is not ok: request throws an
\* ApiError with the response's status, the request's URL and the message
\* described.
ApiErrorOnNotOk ==
    (pc = "done" /\ fetchResult.kind = "response"
       /\ ~(fetchResult.status \in 200..299))
    => /\ apiOutcome.kind = "throw"
       /\ apiOutcome.error = "ApiError"
       /\ apiOutcome.status = fetchResult.status
       /\ apiOutcome.url = "/api" \o apiArgs.path
       /\ apiOutcome.message = "Request failed: " \o ExpectedDetail

\* C25: whatever request throws is an ApiError; a response that is not ok
\* gives an ApiError as described; a response that is ok gives the parsed
\* body back.
C25_SingleErrorKind ==
    /\ (pc = "done" /\ apiOutcome.kind = "throw") => apiOutcome.error = "ApiError"
    /\ ApiErrorOnNotOk
    /\ (pc = "done" /\ fetchResult.kind = "response" /\ fetchResult.status \in 200..299)
       => /\ apiOutcome.kind = "return"
          /\ apiOutcome.value[2] = fetchResult.body.text

IsDuplicateFree(xs) == \A i, j \in 1..Len(xs) : i # j => xs[i] # xs[j]

Others(xs, name) == SelectSeq(xs, LAMBDA x : x # name)

\* C26: the selection is always duplicate-free, and every handler run
\* makes exactly one setSelectedPdfs call, whose argument is: for
\* onToggle(name), the selection without name if name was selected and
\* with name otherwise, the other members as they were (so that a second
\* onToggle(name) gives the set there was before the first); for
\* onSelectAll, the members of the selection and of the filtered listing;
\* for onClearAll, the empty list.
C26_HandlersKeepDuplicateFree ==
    /\ [](IsDuplicateFree(selectedPdfs))
    /\ [][handler' # handler \/ Len(calls') # Len(calls) =>
            LET h      == handler'
                before == IF Len(calls) >= 2 THEN calls[Len(calls) - 1].pdfs ELSE <<>>
            IN  /\ Len(calls') = Len(calls) + 1
                /\ calls'[Len(calls')].pdfs = selectedPdfs'
                /\ SubSeq(calls', 1, Len(calls))
                      = [i \in 1..Len(calls) |-> [calls[i] EXCEPT !.overlapped = calls'[i].overlapped]]
                /\ IsDuplicateFree(selectedPdfs')
                /\ h.op \in {"onToggle", "onSelectAll", "onClearAll"}
                /\ h.op = "onToggle" =>
                      /\ Range(selectedPdfs') =
                            IF h.name \in Range(selectedPdfs)
                            THEN Range(selectedPdfs) \ {h.name}
                            ELSE Range(selectedPdfs) \cup {h.name}
                      /\ Others(selectedPdfs', h.name) = Others(selectedPdfs, h.name)
                /\ (h.op = "onToggle" /\ handler = h) =>
                      Range(selectedPdfs') = Range(before)
                /\ h.op = "onSelectAll" =>
                      Range(selectedPdfs') =
                         Range(selectedPdfs)
                           \cup { n \in Range(allPdfs) :
                                    NormalizeQuery(query) = ""
                                      \/ IncludesLower(n, NormalizeQuery(query)) }
                /\ h.op = "onClearAll" => selectedPdfs' = <<>>]_vars

\* C26 witness: select all of a, b, a||b, then b toggled off and on again:
\* the same three documents are selected, b now last.
C26_Witness ==
    /\ handler = [op |-> "onToggle", name |-> "b"]
    /\ Len(calls) = 3
    /\ calls[1].pdfs = <<"a", "b", "a||b">>
    /\ calls[2].pdfs = <<"a", "a||b">>
    /\ calls[3].pdfs = <<"a", "a||b", "b">>
    /\ selectedPdfs = <<"a", "a||b", "b">>

\* C28: combinedFields is empty or is the value the cache holds under
\* some signature.
C28_ShownIsCached ==
    \/ combinedFields = <<>>
    \/ \E s \in DOMAIN fieldsCache : fieldsCache[s] = combinedFields

\* C29: every cache entry is the result of a fulfilled call that fetched
\* and whose own argument has the entry's signature; it is dedupeFields of
\* an answer of the service and holds no two descriptors with the same
\* normalized name.
C29_CacheEntriesAreFetchedResults ==
    \A s \in DOMAIN fieldsCache :
        /\ \E i \in 1..Len(calls) :
              /\ calls[i].state = "fulfilled" /\ calls[i].path = "miss"
              /\ selectionSignature(calls[i].pdfs) = s
              /\ calls[i].result = fieldsCache[s]
        /\ \E raw \in RawResponses : fieldsCache[s] = dedupeFields(raw)
        /\ \A i, j \in 1..Len(fieldsCache[s]) :
              i # j => TrimLower(fieldsCache[s][i].name) # TrimLower(fieldsCache[s][j].name)

\* C29 witness: the answer to the request for b, a arrived after a, alone,
\* had been selected; its two descriptors, merged into one, are filed under
\* a||b and nothing is filed under a.
C29_Witness ==
    /\ last.op = "respondOk"
    /\ Len(last.raw) = 2
    /\ calls[last.call].pdfs = <<"b", "a">>
    /\ selectedPdfs = <<"a">>
    /\ DOMAIN fieldsCache = {"a||b"}
    /\ Len(fieldsCache["a||b"]) = 1

\* C30: a step other than reset leaves every cache entry in place with its
\* value.
C30_EntriesStable ==
    [][last'.op # "reset" =>
          \A s \in DOMAIN fieldsCache :
              s \in DOMAIN fieldsCache' /\ fieldsCache'[s] = fieldsCache[s]]_vars

\* C30 amended: a step other than reset removes no cache entry, and an
\* entry changes only when the answer arrives to a request for its own
\* signature that an overlapping call made; a request in flight for a
\* signature that has an entry always belongs to such a call.
C30_EntriesStableUnlessOverlap ==
    /\ [](\A r \in inflight :
            (r.sig \in DOMAIN fieldsCache)
               => calls[r.call].overlapped)
    /\ [][last'.op # "reset" =>
            \A s \in DOMAIN fieldsCache :
                /\ s \in DOMAIN fieldsCache'
                /\ fieldsCache'[s] # fieldsCache[s] =>
                      /\ last'.op = "respondOk"
                      /\ calls[last'.call].sig = s
                      /\ calls[last'.call].overlapped]_vars

\* C30 witness: two overlapping calls for one signature were answered
\* differently; the entry, first the one answer, is now the other; the
\* entry of another signature would have stayed.
C30_Witness ==
    /\ last.op = "respondOk"
    /\ Len(calls) = 2
    /\ calls[1].sig = calls[2].sig
    /\ \A i \in 1..2 : calls[i].state = "fulfilled" /\ calls[i].path = "miss"
    /\ calls[1].result # calls[2].result
    /\ fieldsCache[calls[1].sig] = calls[last.call].result

\* C31: whenever a getCombinedFields request is in flight, isLoadingFields
\* is true.
C31_LoadingWhileInflight == inflight # {} => isLoadingFields

\* C32: when the answer to a request arrives right after a reset, with no
\* operation in between, the store is left in its initial state.
C32_ResetIsFinal ==
    [][(last.op = "reset" /\ last'.op \in {"respondOk", "respondFail"})
          => StoreInit']_vars

\* C33: a setSelectedPdfs call and the arrival of its answer, whatever path
\* is taken, leave allPdfs, fieldValues, schemaVersion, isLoadingPdfs and
\* isFilling as they were; a value the user entered goes away only by reset.
C33_SelectionFrame ==
    /\ [][last'.op \in {"setSelectedPdfs", "respondOk", "respondFail"}
             => UNCHANGED <<allPdfs, fieldValues, schemaVersion, isLoadingPdfs,
                            isFilling>>]_vars
    /\ [][(\E n \in DOMAIN fieldValues : n \notin DOMAIN fieldValues')
             => last'.op = "reset"]_vars

\* C33 witness: the answer to a selection arrived while the document list
\* was loading and after the user had entered a value and the schema had
\* been loaded; all of these are still there.
C33_Witness ==
    /\ last.op = "respondOk"
    /\ combinedFields # <<>>
    /\ DOMAIN fieldValues # {}
    /\ schemaVersion # Null
    /\ isLoadingPdfs

\* C34: a call with a non-empty argument whose signature has no cache
\* entry misses and sends a request, and combinedFields is always empty or
\* the deduplicated form of an answer of the service.
C34_HitsOnlyStoredSignatures ==
    /\ (/\ last.op = "setSelectedPdfs"
        /\ calls[last.call].pdfs # <<>>
        /\ calls[last.call].sig \notin DOMAIN fieldsCache)
       => /\ calls[last.call].path = "miss"
          /\ \E r \in inflight : r.call = last.call
    /\ \/ combinedFields = <<>>
       \/ \E raw \in RawResponses : combinedFields = dedupeFields(raw)

\* C10: after reset every slot holds its initial value, and every selection
\* is looked up as in a new store.
C10_ResetRestoresInitialState ==
    last.op = "reset"
        => /\ allPdfs = <<>>
           /\ selectedPdfs = <<>>
           /\ combinedFields = <<>>
           /\ fieldValues = EmptyMap
           /\ schemaVersion = Null
           /\ fieldsCache = NoCache
           /\ ~isLoadingPdfs /\ ~isLoadingFields /\ ~isFilling
           /\ \A pdfs \in Selections \cup FullSelections :
                 /\ selectionSignature(pdfs) \notin DOMAIN fieldsCache
                 /\ FetchPath(fieldsCache, pdfs) = FetchPath(NoCache, pdfs)

\* C10 witness: a reset of a store whose documents, selection, field list,
\* field values, schema version, cache and listing flag had all been set.
C10_Witness ==
    /\ last.op = "reset"
    /\ {"allPdfs", "selectedPdfs", "combinedFields", "fieldValues", "schemaVersion",
        "fieldsCache", "isLoadingPdfs"} \subseteq last.cleared

=============================================================================
